---- MODULE Spec2Model ----
(***************************************************************************)
(* A model of the two command-line tools of bgg-ranking-historicals:       *)
(*   remove.py   remove_and_deduplicate: one sorted pass over a directory  *)
(*               that removes files shorter than the running baseline and  *)
(*               files identical to the previously read file;              *)
(*   rename.py   rename_files / rename_file: renames date-named files to   *)
(*               the time stamp of their earliest Git commit.              *)
(* Strings are sequences of one-character strings.  The float tolerance   *)
(* is a fraction num/den, and  a < b * tolerance  is  a*den < b*num.       *)
(***************************************************************************)
EXTENDS Integers, Sequences, FiniteSets, TLC

VARIABLES
    tool,               \* which script this behaviour runs: "remove" or "rename"
    \* ---- remove.py: the directory and the arguments of remove_and_deduplicate
    dir,                \* in_dir: function from the names present to their content
    glob, tolerance, deduplicate, dry_run,
    \* ---- remove.py: the locals of remove_and_deduplicate
    pc, paths, idx, prev_count, prev_content, removed_short, removed_duplicates,
    curr_count, curr_content,
    \* ---- remove.py: what the call produces
    stdout,             \* the paths print()ed, in order
    log,                \* the LOGGER.info records of the loop, in order
    result,             \* the returned pair, <<>> before the return
    raised,             \* the exception that ended the call, or NoValue
    \* ---- remove.py: history of the run, for the statements about it
    snapshot,           \* dir as it was when the call listed it
    trace,              \* (path, prev_count, prev_content) after each file
    last,               \* the record of the previous call, if any: a sequence
    \* ---- rename.py: the repository and the arguments of rename_files; the
    \* ---- two scripts share pc, paths, idx, dry_run, log and raised
    files,              \* the names of the files of the working tree
    commits,            \* the history: [date, paths, message], the oldest first
    staged,             \* the paths whose change is in the index, uncommitted
    strict,
    date,               \* rename_file's local: the first commit date or NoDate
    lastRun             \* how the previous run of rename.py ended, if any

scanLocals == <<pc, paths, idx, prev_count, prev_content, removed_short,
                removed_duplicates, curr_count, curr_content>>
scanArgs == <<glob, tolerance, deduplicate>>
scanOut == <<stdout, log, result, raised>>
scanVars == <<dir, scanArgs, dry_run, scanLocals, scanOut, snapshot, trace, last>>
renameVars == <<files, commits, staged, strict, date, lastRun>>

NoValue == "None"
\* A date that is None (a datetime is a record).
NoDate == [year |-> 0, month |-> 0, day |-> 0, hour |-> 0, minute |-> 0, second |-> 0]

(***************************************************************************)
(* Bounds and input sets of remove.py                                      *)
(***************************************************************************)
\* The number of CSV snapshots in the directory.
NumFiles == 3

\* Directory entries are numbered in the lexicographic order of their paths.
\* Entry 0 is a file that is no CSV (it sorts before the dated snapshots, like
\* ".gitignore"); entries 1..NumFiles are the CSV snapshots.
OtherEntry == 0
CsvNames == 1..NumFiles
Names == {OtherEntry} \cup CsvNames

NL == "\n"
\* File contents: the empty file, two different 1-line files, and a 2-line file
\* whose last line has no newline.
Contents == { <<>>,
              <<"a", NL>>,
              <<"b", NL>>,
              <<"a", NL, "b">> }
OtherContent == <<"x", NL, "y", NL>>

\* tolerance as a fraction: 0, 0.5, 1.0 (the default of the function), and 1.5,
\* which is outside [0, 1].
Tolerances == { [num |-> 0, den |-> 1], [num |-> 1, den |-> 2],
                [num |-> 1, den |-> 1], [num |-> 3, den |-> 2] }
Globs == {"*.csv", NoValue}

(***************************************************************************)
(* remove.py: pure helpers                                                 *)
(***************************************************************************)
\* The number of newline characters of a text.
RECURSIVE Newlines(_)
Newlines(content) ==
    IF content = <<>> THEN 0
    ELSE (IF Head(content) = NL THEN 1 ELSE 0) + Newlines(Tail(content))

\* sum(1 for _ in file): iterating a text file yields one item per line, a line
\* ending at each newline; characters after the last newline are a line too.
LineCount(content) ==
    Newlines(content)
    + (IF content # <<>> /\ content[Len(content)] # NL THEN 1 ELSE 0)

\* A variant of Max2: the baseline follows the current file.
TakeSecond(a, b) == b

\* max(prev_count, curr_count)
Max2(a, b) == IF a >= b THEN a ELSE b

\* in_dir.glob(glob) if glob else in_dir.iterdir()
Listing(d, g) ==
    IF g = NoValue THEN DOMAIN d ELSE {n \in DOMAIN d : n \in CsvNames}

\* sorted(paths)
RECURSIVE Sorted(_)
Sorted(S) ==
    IF S = {} THEN <<>>
    ELSE LET m == CHOOSE x \in S : \A y \in S : x <= y
         IN  <<m>> \o Sorted(S \ {m})

\* A variant of IsShorter: "<=" in the place of "<".
IsShorterOrEqual(curr, prev, tol) == curr * tol.den <= prev * tol.num

\* curr_count < prev_count * tolerance
IsShorter(curr, prev, tol) == curr * tol.den < prev * tol.num

\* path.unlink()
Unlink(d, p) == [n \in (DOMAIN d) \ {p} |-> d[n]]

(***************************************************************************)
(* remove.py: remove_and_deduplicate, one action per stretch of code       *)
(* between two accesses to the file system                                 *)
(***************************************************************************)
\* remove.py leaves what rename.py works on alone.
RenameIdle == UNCHANGED <<tool, renameVars>>

\* Lines 28-46: the assertion on tolerance, the locals, the sorted listing.
Enter ==
    /\ RenameIdle
    /\ tool = "remove" /\ pc = "start"
    /\ IF ~(0 <= tolerance.num /\ tolerance.num <= tolerance.den)
       THEN /\ raised' = "AssertionError"
            /\ pc' = "raised"
            /\ UNCHANGED <<paths, snapshot, idx, prev_count, prev_content,
                           removed_short, removed_duplicates>>
       ELSE /\ prev_count' = 0
            /\ prev_content' = <<>>
            /\ removed_short' = 0
            /\ removed_duplicates' = 0
            /\ paths' = Sorted(Listing(dir, glob))
            /\ snapshot' = dir
            /\ idx' = 1
            /\ pc' = IF paths' = <<>> THEN "return" ELSE "open"
            /\ UNCHANGED raised
    /\ UNCHANGED <<dir, scanArgs, dry_run, curr_count, curr_content, stdout,
                   log, result, trace, last>>

\* The end of one iteration of the for loop: the next path, or the return.
NextPath == IF idx < Len(paths) THEN "open" ELSE "return"

\* Lines 46-48: the next path is opened and its lines are counted.
CountLines ==
    /\ RenameIdle
    /\ tool = "remove" /\ pc = "open"
    /\ IF paths[idx] \notin DOMAIN dir
       THEN /\ raised' = "FileNotFoundError"
            /\ pc' = "raised"
            /\ UNCHANGED curr_count
       ELSE /\ curr_count' = LineCount(dir[paths[idx]])
            /\ pc' = "check"
            /\ UNCHANGED raised
    /\ UNCHANGED <<dir, scanArgs, dry_run, paths, idx, prev_count, prev_content,
                   removed_short, removed_duplicates, curr_content, stdout, log,
                   result, snapshot, trace, last>>

\* What the statements about a run read after each file.
TraceEntry(p, count, content) ==
    [path |-> p, prev_count |-> count, prev_content |-> content]

\* A variant of Discard: the path is unlinked in a dry run too.
DiscardAlways(p) ==
    /\ stdout' = IF dry_run THEN Append(stdout, p) ELSE stdout
    /\ dir' = Unlink(dir, p)

\* Lines 57-60 and 77-80: the path is printed in a dry run, unlinked otherwise.
Discard(p) ==
    IF dry_run
    THEN stdout' = Append(stdout, p) /\ UNCHANGED dir
    ELSE dir' = Unlink(dir, p) /\ UNCHANGED stdout

\* A variant of UnlinkFails: unlink(missing_ok=True).
UnlinkNeverFails(p) == FALSE

\* path.unlink() on a path that is no longer there.
UnlinkFails(p) == ~dry_run /\ p \notin DOMAIN dir

\* A variant of RemoveShort: the counter is raised only where a file is unlinked.
RemoveShortCountsUnlinks ==
    LET p == paths[idx] IN
    /\ log' = Append(log, <<"shorter", p>>)
    /\ IF UnlinkFails(p)
       THEN /\ raised' = "FileNotFoundError"
            /\ pc' = "raised"
            /\ UNCHANGED <<dir, stdout, removed_short, idx, trace>>
       ELSE /\ Discard(p)
            /\ removed_short' = IF dry_run THEN removed_short
                                ELSE removed_short + 1
            /\ pc' = NextPath
            /\ idx' = idx + 1
            /\ trace' = Append(trace, TraceEntry(p, prev_count, prev_content))
            /\ UNCHANGED raised
    /\ UNCHANGED <<prev_count, prev_content, removed_duplicates>>

\* Lines 50-62: the file is shorter than the baseline allows.
RemoveShort ==
    LET p == paths[idx] IN
    /\ log' = Append(log, <<"shorter", p>>)
    /\ IF UnlinkFails(p)
       THEN /\ raised' = "FileNotFoundError"
            /\ pc' = "raised"
            /\ UNCHANGED <<dir, stdout, removed_short, idx, trace>>
       ELSE /\ Discard(p)
            /\ removed_short' = removed_short + 1
            /\ pc' = NextPath
            /\ idx' = idx + 1
            /\ trace' = Append(trace, TraceEntry(p, prev_count, prev_content))
            /\ UNCHANGED raised
    /\ UNCHANGED <<prev_count, prev_content, removed_duplicates>>

\* Lines 64-67: the baseline is raised; without deduplicate the file is done.
KeepLength ==
    /\ prev_count' = Max2(prev_count, curr_count)
    /\ IF ~deduplicate
       THEN /\ pc' = NextPath
            /\ idx' = idx + 1
            /\ trace' = Append(trace, TraceEntry(paths[idx], prev_count', prev_content))
       ELSE /\ pc' = "read"
            /\ UNCHANGED <<idx, trace>>
    /\ UNCHANGED <<dir, prev_content, removed_short, removed_duplicates, stdout,
                   log, raised>>

\* Lines 50-67: the short-file check on the counted file.
CheckLength ==
    /\ RenameIdle
    /\ tool = "remove" /\ pc = "check"
    /\ IF IsShorter(curr_count, prev_count, tolerance)
       THEN RemoveShort
       ELSE KeepLength
    /\ UNCHANGED <<scanArgs, dry_run, paths, curr_count, curr_content, result,
                   snapshot, last>>

\* Lines 69-70: the file is opened again and read whole.
ReadContent ==
    /\ RenameIdle
    /\ tool = "remove" /\ pc = "read"
    /\ IF paths[idx] \notin DOMAIN dir
       THEN /\ raised' = "FileNotFoundError"
            /\ pc' = "raised"
            /\ UNCHANGED curr_content
       ELSE /\ curr_content' = dir[paths[idx]]
            /\ pc' = "compare"
            /\ UNCHANGED raised
    /\ UNCHANGED <<dir, scanArgs, dry_run, paths, idx, prev_count, prev_content,
                   removed_short, removed_duplicates, curr_count, stdout, log,
                   result, snapshot, trace, last>>

\* Lines 72-82: the file is identical to the previous content.
RemoveDuplicate ==
    LET p == paths[idx] IN
    /\ log' = Append(log, <<"identical", p>>)
    /\ IF UnlinkFails(p)
       THEN /\ raised' = "FileNotFoundError"
            /\ pc' = "raised"
            /\ UNCHANGED <<dir, stdout, removed_duplicates, prev_content, idx,
                           trace>>
       ELSE /\ Discard(p)
            /\ removed_duplicates' = removed_duplicates + 1
            /\ prev_content' = curr_content
            /\ pc' = NextPath
            /\ idx' = idx + 1
            /\ trace' = Append(trace, TraceEntry(p, prev_count, curr_content))
            /\ UNCHANGED raised

\* Line 82 alone: the file differs from the previous content and stays.
KeepContent ==
    /\ prev_content' = curr_content
    /\ pc' = NextPath
    /\ idx' = idx + 1
    /\ trace' = Append(trace, TraceEntry(paths[idx], prev_count, curr_content))
    /\ UNCHANGED <<dir, removed_duplicates, stdout, log, raised>>

\* Lines 72-82: the comparison with the previous content.
CompareContent ==
    /\ RenameIdle
    /\ tool = "remove" /\ pc = "compare"
    /\ IF curr_content = prev_content
       THEN RemoveDuplicate
       ELSE KeepContent
    /\ UNCHANGED <<scanArgs, dry_run, paths, prev_count, removed_short,
                   curr_count, curr_content, result, snapshot, last>>

\* Line 84: the two counters are returned.
Return ==
    /\ RenameIdle
    /\ tool = "remove" /\ pc = "return"
    /\ result' = <<removed_short, removed_duplicates>>
    /\ pc' = "done"
    /\ UNCHANGED <<dir, scanArgs, dry_run, paths, idx, prev_count, prev_content,
                   removed_short, removed_duplicates, curr_count, curr_content,
                   stdout, log, raised, snapshot, trace, last>>

\* The script is run again on the directory as the call left it, with the same
\* arguments and either value of --dry-run; the finished call is remembered.
RunAgain ==
    /\ RenameIdle
    /\ tool = "remove" /\ pc = "done" /\ last = <<>>
    /\ \E d \in BOOLEAN : dry_run' = d
    /\ last' = <<[dry_run |-> dry_run, snapshot |-> snapshot, after |-> dir,
                  result |-> result, stdout |-> stdout, log |-> log,
                  trace |-> trace]>>
    /\ pc' = "start"
    /\ stdout' = <<>> /\ log' = <<>> /\ trace' = <<>>
    /\ result' = <<>>
    /\ UNCHANGED <<dir, scanArgs, paths, idx, prev_count, prev_content,
                   removed_short, removed_duplicates, curr_count, curr_content,
                   raised, snapshot>>

\* The state in which python starts remove.py on a directory.
InitRemove ==
    /\ tool = "remove"
    /\ dir \in {d \in [Names -> Contents \cup {OtherContent}] :
                   /\ d[OtherEntry] = OtherContent
                   /\ \A n \in CsvNames : d[n] \in Contents}
    /\ glob \in Globs
    /\ tolerance \in Tolerances
    /\ deduplicate \in BOOLEAN
    /\ dry_run \in BOOLEAN
    /\ pc = "start"
    /\ paths = <<>> /\ idx = 1
    /\ prev_count = 0 /\ prev_content = <<>>
    /\ removed_short = 0 /\ removed_duplicates = 0
    /\ curr_count = 0 /\ curr_content = <<>>
    /\ stdout = <<>> /\ log = <<>>
    /\ result = <<>> /\ raised = NoValue
    /\ snapshot = <<>> /\ trace = <<>> /\ last = <<>>
    /\ files = {} /\ commits = <<>> /\ staged = {} /\ strict = TRUE
    /\ date = NoDate /\ lastRun = <<>>


(***************************************************************************)
(* rename.py: strings, dates and names                                     *)
(***************************************************************************)
Digits == <<"0", "1", "2", "3", "4", "5", "6", "7", "8", "9">>
DigitChar(n) == Digits[n + 1]
IsDigit(c) == \E n \in 0..9 : Digits[n + 1] = c
DigitVal(c) == CHOOSE n \in 0..9 : Digits[n + 1] = c

\* A number in two and in four decimal digits, zero-padded (%m, %d, ..., %Y).
Pad2(n) == <<DigitChar((n \div 10) % 10), DigitChar(n % 10)>>
Pad4(n) == Pad2(n \div 100) \o Pad2(n % 100)

\* The number a run of decimal digits denotes.
RECURSIVE Number(_)
Number(s) ==
    IF s = <<>> THEN 0
    ELSE Number(SubSeq(s, 1, Len(s) - 1)) * 10 + DigitVal(s[Len(s)])

\* date.strftime(DATE_FORMAT), DATE_FORMAT = "%Y-%m-%dT%H-%M-%S"
Strftime(dt) ==
    Pad4(dt.year) \o <<"-">> \o Pad2(dt.month) \o <<"-">> \o Pad2(dt.day)
    \o <<"T">> \o Pad2(dt.hour) \o <<"-">> \o Pad2(dt.minute)
    \o <<"-">> \o Pad2(dt.second)

\* Git's %aI: the author date in strict ISO 8601 (here always in UTC).
IsoFormat(dt) ==
    Pad4(dt.year) \o <<"-">> \o Pad2(dt.month) \o <<"-">> \o Pad2(dt.day)
    \o <<"T">> \o Pad2(dt.hour) \o <<":">> \o Pad2(dt.minute)
    \o <<":">> \o Pad2(dt.second) \o <<"+", "0", "0", ":", "0", "0">>

AllDigits(s) == \A k \in 1..Len(s) : IsDigit(s[k])

\* pytility.parse_date on a line of the log: the datetime of an ISO 8601
\* string, None for anything else.
ParseDate(s) ==
    IF /\ Len(s) >= 19
       /\ AllDigits(SubSeq(s, 1, 4)) /\ s[5] = "-"
       /\ AllDigits(SubSeq(s, 6, 7)) /\ s[8] = "-"
       /\ AllDigits(SubSeq(s, 9, 10)) /\ s[11] = "T"
       /\ AllDigits(SubSeq(s, 12, 13)) /\ s[14] = ":"
       /\ AllDigits(SubSeq(s, 15, 16)) /\ s[17] = ":"
       /\ AllDigits(SubSeq(s, 18, 19))
    THEN [year |-> Number(SubSeq(s, 1, 4)), month |-> Number(SubSeq(s, 6, 7)),
          day |-> Number(SubSeq(s, 9, 10)), hour |-> Number(SubSeq(s, 12, 13)),
          minute |-> Number(SubSeq(s, 15, 16)),
          second |-> Number(SubSeq(s, 18, 19))]
    ELSE NoDate

CsvSuffix == <<".", "c", "s", "v">>

\* A variant of MatchesFileGlob: the pattern "20*.csv".
MatchesLooseGlob(name) ==
    /\ Len(name) >= 6
    /\ name[1] = "2" /\ name[2] = "0"
    /\ SubSeq(name, Len(name) - 3, Len(name)) = CsvSuffix

\* FILE_GLOB = "20[0-9][0-9]-[0-1][0-9]-[0-3][0-9].csv"
MatchesFileGlob(name) ==
    /\ Len(name) = 14
    /\ name[1] = "2" /\ name[2] = "0" /\ IsDigit(name[3]) /\ IsDigit(name[4])
    /\ name[5] = "-"
    /\ name[6] \in {"0", "1"} /\ IsDigit(name[7])
    /\ name[8] = "-"
    /\ name[9] \in {"0", "1", "2", "3"} /\ IsDigit(name[10])
    /\ SubSeq(name, 11, 14) = CsvSuffix

\* path_file.stem: the name without its last suffix.
Stem(name) ==
    LET dots == {k \in 2..Len(name) : name[k] = "."}
    IN  IF dots = {} THEN name
        ELSE SubSeq(name, 1, (CHOOSE k \in dots : \A j \in dots : j <= k) - 1)

\* The characters of the names, in the order of their code points.
CharOrder == <<" ", "-", ".", "0", "1", "2", "3", "4", "5", "6", "7", "8", "9",
               ":", ">", "T", "c", "s", "v">>
Ord(c) == CHOOSE k \in 1..Len(CharOrder) : CharOrder[k] = c

\* a < b for two strings, as sorted() compares the paths of one directory.
RECURSIVE LexLess(_, _)
LexLess(a, b) ==
    IF b = <<>> THEN FALSE
    ELSE IF a = <<>> THEN TRUE
    ELSE IF Head(a) # Head(b) THEN Ord(Head(a)) < Ord(Head(b))
    ELSE LexLess(Tail(a), Tail(b))

\* sorted(path_dir.glob(FILE_GLOB))
RECURSIVE SortedNames(_)
SortedNames(S) ==
    IF S = {} THEN <<>>
    ELSE LET m == CHOOSE x \in S : \A y \in S \ {x} : LexLess(x, y)
         IN  <<m>> \o SortedNames(S \ {m})

\* git log --reverse --date-order --pretty=format:%aI -- path: one line per
\* commit that touches the path, the oldest first.
RECURSIVE GitLog(_, _)
GitLog(history, path) ==
    IF history = <<>> THEN <<>>
    ELSE LET rest == GitLog(Tail(history), path)
         IN  IF path \notin Head(history).paths THEN rest
             ELSE IF rest = <<>> THEN IsoFormat(Head(history).date)
             ELSE IsoFormat(Head(history).date) \o <<NL>> \o rest

\* next(iter(log.split("\n", 1)), None)
FirstLine(text) ==
    LET nls == {k \in 1..Len(text) : text[k] = NL}
    IN  IF nls = {} THEN text
        ELSE SubSeq(text, 1, (CHOOSE k \in nls : \A j \in nls : k <= j) - 1)

\* first_commit_date, lines 22-30
FirstCommitDate(history, path) ==
    LET text == GitLog(history, path)
    IN  IF text = <<>> THEN NoDate ELSE ParseDate(FirstLine(text))

\* new_file_name = f"{date_str}.csv"
NewFileName(date_str) == date_str \o CsvSuffix

\* f"{path_file.name} -> {new_file_name}"
CommitMessage(old, new) == old \o <<" ", "-", ">", " ">> \o new

(***************************************************************************)
(* rename.py: input sets                                                   *)
(***************************************************************************)
DateTime(y, mo, d, h, mi, sec) ==
    [year |-> y, month |-> mo, day |-> d, hour |-> h, minute |-> mi,
     second |-> sec]

\* The days the snapshot files are named after, and the times of day of a commit.
Days == { DateTime(2021, 5, 1, 0, 0, 0), DateTime(2021, 5, 2, 0, 0, 0) }
Times == { [hour |-> 14, minute |-> 30, second |-> 0],
           [hour |-> 0, minute |-> 10, second |-> 0] }
CommitDates ==
    { DateTime(d.year, d.month, d.day, t.hour, t.minute, t.second) :
        d \in Days, t \in Times }
\* The date of a later commit that changes every file, and the date of the
\* commits the script makes.
UpdateDate == DateTime(2021, 5, 3, 9, 0, 0)
Today == DateTime(2021, 6, 1, 12, 0, 0)

\* "YYYY-MM-DD.csv"
DayName(d) == SubSeq(Strftime(d), 1, 10) \o CsvSuffix
DayNames == { DayName(d) : d \in Days }
StampNames == { NewFileName(Strftime(dt)) : dt \in CommitDates }

\* x is no later than y: ISO 8601 strings of one time zone sort by time.
NotLater(x, y) == x = y \/ LexLess(IsoFormat(x), IsoFormat(y))

\* The commits that added the files: one per date, in the order of the dates;
\* added[f] is the date of the commit that added f, NoDate for a file never
\* committed.
RECURSIVE AddCommits(_, _)
AddCommits(added, dates) ==
    IF dates = {} THEN <<>>
    ELSE LET first == CHOOSE x \in dates :
                          \A y \in dates : NotLater(x, y)
         IN  <<[date |-> first,
                paths |-> {f \in DOMAIN added : added[f] = first},
                message |-> <<"a", "d", "d">>]>>
             \o AddCommits(added, dates \ {first})

\* The history of a repository: the commits that added the files, then one
\* that changed every committed file.
History(added, others) ==
    AddCommits(added, {added[f] : f \in DOMAIN added} \ {NoDate})
    \o <<[date |-> UpdateDate,
          paths |-> {f \in DOMAIN added : added[f] # NoDate} \cup others,
          message |-> <<"u", "p">>]>>

(***************************************************************************)
(* rename.py: rename_files and rename_file                                 *)
(***************************************************************************)
\* rename.py leaves what remove.py works on alone.
RemoveIdle ==
    UNCHANGED <<dir, scanArgs, prev_count, prev_content, removed_short,
                removed_duplicates, curr_count, curr_content, stdout, result,
                snapshot, trace, last>>

\* s[:k]
Prefix(s, k) == SubSeq(s, 1, IF k < Len(s) THEN k ELSE Len(s))

\* Lines 65-68: the repository is opened and the date-named files are listed.
ListFiles ==
    /\ RemoveIdle
    /\ tool = "rename" /\ pc = "start"
    /\ paths' = SortedNames({f \in files : MatchesFileGlob(f)})
    /\ idx' = 1
    /\ pc' = IF paths' = <<>> THEN "done" ELSE "query"
    /\ UNCHANGED <<tool, dry_run, log, raised, renameVars>>

\* The end of one call of rename_file: the next path, or the end of the loop.
NextFile == IF idx < Len(paths) THEN "query" ELSE "done"

\* A variant of QueryDate: a file without a commit is passed over.
QueryDateSkips ==
    /\ RemoveIdle
    /\ tool = "rename" /\ pc = "query"
    /\ date' = FirstCommitDate(commits, paths[idx])
    /\ IF date' = NoDate
       THEN pc' = NextFile /\ idx' = idx + 1
       ELSE pc' = "strict" /\ UNCHANGED idx
    /\ UNCHANGED <<tool, dry_run, log, raised, paths, files, commits, staged,
                   strict, lastRun>>

\* Lines 41-42: the first commit date is asked of Git and formatted; a date
\* of None has no strftime.
QueryDate ==
    /\ RemoveIdle
    /\ tool = "rename" /\ pc = "query"
    /\ date' = FirstCommitDate(commits, paths[idx])
    /\ IF date' = NoDate
       THEN raised' = "AttributeError" /\ pc' = "raised"
       ELSE pc' = "strict" /\ UNCHANGED raised
    /\ UNCHANGED <<tool, dry_run, log, paths, idx, files, commits, staged,
                   strict, lastRun>>

\* A variant of Mismatch: the whole date string is compared with the stem.
MismatchWhole(is_strict, date_str, path) ==
    is_strict /\ date_str # Stem(path)

\* strict and date_str[:10] != path_file.stem
Mismatch(is_strict, date_str, path) ==
    is_strict /\ Prefix(date_str, 10) # Stem(path)

\* Lines 44-57: the strict check, the new name, and the end of a dry run.
CheckStrict ==
    LET path == paths[idx]
        date_str == Strftime(date)
    IN  /\ RemoveIdle
        /\ tool = "rename" /\ pc = "strict"
        /\ IF Mismatch(strict, date_str, path)
           THEN /\ log' = Append(log, <<"skipping", Stem(path), date_str>>)
                /\ pc' = NextFile
                /\ idx' = idx + 1
           ELSE /\ log' = Append(log, <<"moving", path, NewFileName(date_str)>>)
                /\ IF dry_run
                   THEN pc' = NextFile /\ idx' = idx + 1
                   ELSE pc' = "mv" /\ UNCHANGED idx
        /\ UNCHANGED <<tool, dry_run, raised, paths, renameVars>>

\* Line 58: repo.git().mv(path_file, new_path_file); git mv refuses to
\* overwrite a file that exists.
GitMv ==
    LET path == paths[idx]
        new == NewFileName(Strftime(date))
    IN  /\ RemoveIdle
        /\ tool = "rename" /\ pc = "mv"
        /\ IF new \in files
           THEN /\ raised' = "GitCommandError" /\ pc' = "raised"
                /\ UNCHANGED <<files, staged>>
           ELSE /\ files' = (files \ {path}) \cup {new}
                /\ staged' = staged \cup {path, new}
                /\ pc' = "commit"
                /\ UNCHANGED raised
        /\ UNCHANGED <<tool, dry_run, log, paths, idx, commits, strict, date,
                       lastRun>>

\* Line 59: repo.index.commit(...): a commit of all that the index holds.
GitCommit ==
    LET path == paths[idx]
        new == NewFileName(Strftime(date))
    IN  /\ RemoveIdle
        /\ tool = "rename" /\ pc = "commit"
        /\ commits' = Append(commits, [date |-> Today, paths |-> staged,
                                       message |-> CommitMessage(path, new)])
        /\ staged' = {}
        /\ pc' = NextFile
        /\ idx' = idx + 1
        /\ UNCHANGED <<tool, dry_run, log, raised, paths, files, strict, date,
                       lastRun>>

\* The process is terminated between two steps of a run.
Terminate ==
    /\ RemoveIdle
    /\ tool = "rename" /\ pc \in {"start", "query", "strict", "mv", "commit"}
    /\ pc' = "killed"
    /\ UNCHANGED <<tool, dry_run, log, raised, paths, idx, renameVars>>

\* rename.py is run again on the repository as the previous run left it.
RenameAgain ==
    /\ RemoveIdle
    /\ tool = "rename" /\ pc \in {"done", "raised", "killed"}
    /\ lastRun' = <<[ended |-> pc, strict |-> strict, dry_run |-> dry_run]>>
    /\ strict' \in BOOLEAN
    /\ dry_run' \in BOOLEAN
    /\ pc' = "start"
    /\ log' = <<>> /\ raised' = NoValue /\ date' = NoDate
    /\ paths' = <<>> /\ idx' = 1
    /\ UNCHANGED <<tool, files, commits, staged>>

\* The state in which python starts rename.py on a repository: some of the
\* day-named files, each committed at some date or never, and at most one
\* file that already bears a time stamp.
InitRename ==
    /\ tool = "rename"
    /\ \E present \in SUBSET DayNames :
         \E added \in [present -> CommitDates \cup {NoDate}] :
           \E others \in {S \in SUBSET StampNames : Cardinality(S) <= 1} :
             /\ files = present \cup others
             /\ commits = History(added, others)
    /\ staged = {}
    /\ strict \in BOOLEAN
    /\ dry_run \in BOOLEAN
    /\ date = NoDate /\ lastRun = <<>>
    /\ pc = "start" /\ paths = <<>> /\ idx = 1
    /\ log = <<>> /\ raised = NoValue
    /\ dir = <<>> /\ glob = NoValue /\ tolerance = [num |-> 1, den |-> 1]
    /\ deduplicate = FALSE
    /\ prev_count = 0 /\ prev_content = <<>>
    /\ removed_short = 0 /\ removed_duplicates = 0
    /\ curr_count = 0 /\ curr_content = <<>>
    /\ stdout = <<>> /\ result = <<>>
    /\ snapshot = <<>> /\ trace = <<>> /\ last = <<>>

(***************************************************************************)
(* remove.py beside another process that deletes files of the directory    *)
(***************************************************************************)
\* The number of files the other process deletes during one call.
MaxConcurrent == 1

\* The paths the call itself has unlinked.
OwnUnlinked ==
    IF dry_run THEN {}
    ELSE {log[k][2] : k \in DOMAIN log}
         \ (IF raised = "FileNotFoundError" THEN {paths[idx]} ELSE {})

\* The listed paths another process has deleted since the listing.
DeletedByOthers == ((DOMAIN snapshot) \ (DOMAIN dir)) \ OwnUnlinked

\* Another process deletes a listed path while the call is under way.
ConcurrentUnlink ==
    /\ RenameIdle
    /\ tool = "remove" /\ pc \in {"open", "check", "read", "compare"}
    /\ Cardinality(DeletedByOthers) < MaxConcurrent
    /\ \E p \in {q \in DOMAIN dir : \E k \in DOMAIN paths : paths[k] = q} :
         dir' = Unlink(dir, p)
    /\ UNCHANGED <<scanArgs, dry_run, scanLocals, scanOut, snapshot, trace, last>>

(***************************************************************************)
(* The specifications                                                      *)
(***************************************************************************)
vars == <<tool, scanVars, renameVars>>

NextRemove ==
    \/ Enter \/ CountLines \/ CheckLength \/ ReadContent \/ CompareContent
    \/ Return \/ RunAgain
NextRename ==
    \/ ListFiles \/ QueryDate \/ CheckStrict \/ GitMv \/ GitCommit
    \/ Terminate \/ RenameAgain
NextRace ==
    \/ Enter \/ CountLines \/ CheckLength \/ ReadContent \/ CompareContent
    \/ Return \/ ConcurrentUnlink

Init == InitRemove \/ InitRename
Next == NextRemove \/ NextRename

\* Either script, run alone on its directory.
Spec == Init /\ [][Next]_vars
\* remove.py alone, rename.py alone.
SpecRemove == InitRemove /\ [][NextRemove]_vars
SpecRename == InitRename /\ [][NextRename]_vars
\* remove.py while another process deletes files.
SpecRace == InitRemove /\ [][NextRace]_vars

(***************************************************************************)
(* What a run of remove.py shows of each file                              *)
(***************************************************************************)
Range(seq) == {seq[k] : k \in DOMAIN seq}

\* The largest number of a set, 0 for the empty set.
MaxOver(S) == IF S = {} THEN 0 ELSE CHOOSE x \in S : \A y \in S : y <= x

\* The path was removed: unlinked in a live run, printed in a dry run.
Removed(p) == IF dry_run THEN p \in Range(stdout) ELSE p \notin DOMAIN dir
RemovedShort(p) == Removed(p) /\ <<"shorter", p>> \in Range(log)
RemovedDuplicate(p) == Removed(p) /\ <<"identical", p>> \in Range(log)
Retained(p) == ~Removed(p)

\* The paths whose iteration is over, and those among them that were retained.
Scanned == {trace[k].path : k \in DOMAIN trace}
ScannedBefore(k) == {trace[j].path : j \in 1..(k - 1)}

(***************************************************************************)
(* The claims about remove.py                                              *)
(***************************************************************************)
\* C1: in a scan that raised nothing, the file at position i is removed for
\* shortness if and only if its line count is below tolerance times the largest
\* line count of the retained files before it (0 when there are none), and at
\* the end of the scan prev_count is the largest line count of the retained
\* files (0 when none is retained).
C1_ShortIffBelowBaseline ==
    (tool = "remove" /\ raised = NoValue) =>
        /\ \A k \in DOMAIN trace :
             LET p == trace[k].path
                 base == MaxOver({LineCount(snapshot[q]) :
                                    q \in {r \in ScannedBefore(k) : Retained(r)}})
             IN  /\ p = paths[k]
                 /\ RemovedShort(p) <=>
                      LineCount(snapshot[p]) * tolerance.den
                        < base * tolerance.num
        /\ pc \in {"return", "done"} =>
             /\ Scanned = Listing(snapshot, glob)
             /\ prev_count = MaxOver({LineCount(snapshot[q]) :
                                        q \in {r \in Scanned : Retained(r)}})

\* C1 witness: a finished scan that removed a 1-line file for shortness under a
\* baseline of 2 lines.
C1_Witness ==
    /\ tool = "remove" /\ pc = "done" /\ prev_count = 2
    /\ \E p \in Scanned : RemovedShort(p) /\ LineCount(snapshot[p]) = 1
    /\ \E p \in Scanned : Retained(p) /\ LineCount(snapshot[p]) = 1

\* C2: with deduplicate, a file is removed as a duplicate only when a retained
\* file precedes it and the nearest retained file before it has the same
\* content; never when no file precedes it.
C2_DuplicateOfPrecedingRetained ==
    (tool = "remove" /\ deduplicate) =>
        \A k \in DOMAIN trace :
            LET p == trace[k].path
                kept == {j \in 1..(k - 1) : Retained(trace[j].path)}
            IN  RemovedDuplicate(p) =>
                    /\ kept # {}
                    /\ snapshot[trace[MaxOver(kept)].path] = snapshot[p]

\* The finished call and the call before it, as records of the same shape.
ThisCall ==
    [dry_run |-> dry_run, snapshot |-> snapshot, after |-> dir,
     result |-> result, stdout |-> stdout, log |-> log, trace |-> trace]
Deleted(call) == (DOMAIN call.snapshot) \ (DOMAIN call.after)

\* Two finished calls on the same directory snapshot with the same glob,
\* tolerance and deduplicate, one a dry run and one a live run.
DryAndLive ==
    /\ tool = "remove" /\ pc = "done" /\ last # <<>>
    /\ last[1].dry_run # dry_run
    /\ last[1].snapshot = snapshot

\* C3: on the same snapshot and settings the dry run prints exactly the paths
\* the live run deletes, both return the same pair of counters, and prev_count
\* and prev_content are the same after each file.
C3_DryRunMatchesLiveRun ==
    DryAndLive =>
        LET dry == IF dry_run THEN ThisCall ELSE last[1]
            live == IF dry_run THEN last[1] ELSE ThisCall
        IN  /\ Range(dry.stdout) = Deleted(live)
            /\ Len(dry.stdout) = Cardinality(Deleted(live))
            /\ dry.result = live.result
            /\ dry.trace = live.trace

\* C3 witness: a dry run and a live run of which each removed a short file and
\* a duplicate.
C3_Witness ==
    DryAndLive /\ result[1] >= 1 /\ result[2] >= 1 /\ last[1].result = result

\* C7: in a dry run no step deletes a file, moves a file or makes a commit.
C7_DryRunChangesNothing ==
    [][dry_run => /\ dir' = dir
                  /\ files' = files
                  /\ commits' = commits
                  /\ staged' = staged]_vars

\* C7 witness: a finished dry run of remove.py that flagged a short file and a
\* duplicate.
C7_Witness ==
    /\ tool = "remove" /\ dry_run /\ pc = "done"
    /\ removed_short >= 1 /\ removed_duplicates >= 1
    /\ dir = snapshot

\* A step of the loop that removes the file for shortness.
ShortStep == removed_short' = removed_short + 1

\* C9: during a scan prev_count never decreases; a step that removes a file for
\* shortness leaves prev_count and prev_content as they are and does not count
\* a duplicate; no file is counted as short and as a duplicate.
C9_BaselineMonotone ==
    /\ []((tool = "remove" /\ pc # "start") =>
            /\ \A q \in Scanned :
                 ~(<<"shorter", q>> \in Range(log)
                   /\ <<"identical", q>> \in Range(log))
            /\ removed_short + removed_duplicates <= Len(trace))
    /\ [][(tool = "remove" /\ pc # "start") =>
            /\ prev_count' >= prev_count
            /\ removed_short' \in {removed_short, removed_short + 1}
            /\ removed_duplicates' \in {removed_duplicates, removed_duplicates + 1}
            /\ ShortStep => /\ prev_count' = prev_count
                            /\ prev_content' = prev_content
                            /\ removed_duplicates' = removed_duplicates]_vars

\* C9 witness: a file was removed for shortness after the baseline had risen
\* and a duplicate had been removed.
C9_Witness ==
    /\ tool = "remove" /\ pc = "return"
    /\ removed_short = 1 /\ removed_duplicates = 1 /\ prev_count = 2
    /\ <<"shorter", paths[idx - 1]>> \in Range(log)

\* The files that passed the short check, in the order of the scan.
Passed == SelectSeq(trace, LAMBDA e : <<"shorter", e.path>> \notin Range(log))

\* C10: with deduplicate, of every run of two or more files with identical
\* content that follow one another among the files that pass the short check,
\* the first is retained and every other one is removed as a duplicate;
\* prev_content is the content of the file after every file that passes the
\* short check.
C10_RunsOfIdenticalFiles ==
    (tool = "remove" /\ deduplicate /\ pc = "done") =>
        LET content(k) == snapshot[Passed[k].path]
            first(k) == k = 1 \/ content(k) # content(k - 1)
        IN  \A k \in DOMAIN Passed :
              /\ (first(k) /\ k < Len(Passed) /\ content(k + 1) = content(k))
                    => Retained(Passed[k].path)
              /\ ~first(k) => RemovedDuplicate(Passed[k].path)
              /\ Passed[k].prev_content = content(k)

(***************************************************************************)
(* The claim about remove.py beside a process that deletes files           *)
(***************************************************************************)
\* The next access of the call to the file system is to a path that is gone.
AccessMissing ==
    /\ tool = "remove" /\ pc \in {"open", "check", "read", "compare"}
    /\ paths[idx] \notin DOMAIN dir
    /\ \/ pc \in {"open", "read"}
       \/ /\ pc = "check" /\ ~dry_run
          /\ curr_count * tolerance.den < prev_count * tolerance.num
       \/ pc = "compare" /\ ~dry_run /\ curr_content = prev_content

\* C8, as claimed: a path deleted by another process between the listing and
\* the delete raises no error in remove_and_deduplicate.
C8_NoErrorOnRace == raised # "FileNotFoundError"

\* C8, amended: the next access of the call to a path that another process has
\* deleted (the open to count, the open to read, the unlink) raises
\* FileNotFoundError; the call ends there without a result and without another
\* attempt, and what it had deleted stays deleted.
C8_RaceRaises ==
    /\ [](raised = "FileNotFoundError" =>
            /\ pc = "raised" /\ result = <<>>
            /\ paths[idx] \in DeletedByOthers
            /\ Len(trace) = idx - 1)
    /\ [][/\ (AccessMissing /\ pc' # pc) =>
                /\ raised' = "FileNotFoundError" /\ pc' = "raised"
                /\ dir' = dir /\ idx' = idx
                /\ removed_short' = removed_short
                /\ removed_duplicates' = removed_duplicates
          /\ pc = "raised" => pc' = "raised"]_vars

\* C8 witness: the unlink of a duplicate failed, after the call had unlinked
\* another file.
C8_Witness ==
    /\ raised = "FileNotFoundError" /\ ~dry_run
    /\ <<"identical", paths[idx]>> \in Range(log)
    /\ OwnUnlinked # {}

(***************************************************************************)
(* What a run of rename.py shows of each file                              *)
(***************************************************************************)
\* The first commit date of a path and the name rename_file gives the file.
\* The commits of the script come after the commits of Init and touch no
\* day-named file that is still there, so the date of a listed file is the
\* same all through a run.
DateOf(p) == FirstCommitDate(commits, p)
TargetOf(p) == Strftime(DateOf(p)) \o <<".", "c", "s", "v">>

\* The first ten characters of the formatted date are the name without ".csv".
DatesAgree(p) == SubSeq(Strftime(DateOf(p)), 1, 10) = SubSeq(p, 1, Len(p) - 4)

HasRenameCommit(old, new) ==
    \E k \in DOMAIN commits :
        commits[k].message = old \o <<" ", "-", ">", " ">> \o new

\* The file was renamed by a tracked move, and the move was committed.
RenamedTo(old, new) ==
    old \notin files /\ new \in files /\ HasRenameCommit(old, new)

\* The file has the name it had, and no move of it was committed.
NameUnchanged(p) ==
    p \in files /\ \A k \in DOMAIN commits : commits[k].date = Today =>
                        p \notin commits[k].paths

\* rename_file has returned for the k-th listed file of this run.
Returned(k) == k < idx \/ pc = "done"

\* rename_file has raised for the k-th listed file of this run.
Raised(k) == k = idx /\ pc = "raised"

\* The name of a file that was renamed: "YYYY-MM-DDTHH-MM-SS.csv".
IsStampName(f) == Len(f) = 23 /\ f[11] = "T"

(***************************************************************************)
(* The claims about rename.py                                              *)
(***************************************************************************)
\* C4, as claimed: in a live run, for every listed file whose first commit date
\* resolves, once rename_file is over: in strict mode the file is renamed to
\* "<formatted date>.csv" if and only if the date part equals its stem, and
\* keeps its name otherwise; in non-strict mode it is renamed.
C4_RenamesIffDatesAgree ==
    (tool = "rename" /\ ~dry_run) =>
        \A k \in DOMAIN paths :
            LET p == paths[k] IN
            ((Returned(k) \/ Raised(k)) /\ DateOf(p) # NoDate) =>
                IF strict
                THEN /\ RenamedTo(p, TargetOf(p)) <=> DatesAgree(p)
                     /\ ~DatesAgree(p) => NameUnchanged(p)
                ELSE RenamedTo(p, TargetOf(p))

\* C4, amended: the same, unless a file of the new name exists already: then
\* git mv fails, rename_file raises and the file keeps its name.
C4_RenamesUnlessTargetExists ==
    (tool = "rename" /\ ~dry_run) =>
        \A k \in DOMAIN paths :
            LET p == paths[k]
                wanted == ~strict \/ DatesAgree(p)
            IN  (DateOf(p) # NoDate) =>
                  /\ Returned(k) =>
                       /\ wanted => RenamedTo(p, TargetOf(p))
                       /\ ~wanted => NameUnchanged(p)
                  /\ Raised(k) =>
                       /\ raised = "GitCommandError" /\ wanted
                       /\ NameUnchanged(p) /\ TargetOf(p) \in files
                  /\ (p = <<"2", "0", "2", "1", "-", "0", "5", "-", "0", "1",
                            ".", "c", "s", "v">>
                      /\ DateOf(p) = DateTime(2021, 5, 1, 14, 30, 0)
                      /\ Returned(k))
                       => <<"2", "0", "2", "1", "-", "0", "5", "-", "0", "1",
                            "T", "1", "4", "-", "3", "0", "-", "0", "0",
                            ".", "c", "s", "v">> \in files

\* C4 witness: a finished live run in strict mode that renamed one file and
\* skipped another, whose date part differs from its stem.
C4_Witness ==
    /\ tool = "rename" /\ ~dry_run /\ strict /\ pc = "done" /\ Len(paths) = 2
    /\ \E k \in DOMAIN paths :
         DatesAgree(paths[k]) /\ RenamedTo(paths[k], TargetOf(paths[k]))
    /\ \E k \in DOMAIN paths :
         /\ DateOf(paths[k]) # NoDate /\ ~DatesAgree(paths[k])
         /\ NameUnchanged(paths[k])

\* C5: a file without a first commit date ends the run with an error: the file
\* is not passed over, it keeps its name, nothing is moved or committed for it,
\* and the renames committed for the files before it stay.
C5_NoHistoryIsAnError ==
    /\ []((tool = "rename" /\ raised = "AttributeError") =>
            /\ pc = "raised"
            /\ DateOf(paths[idx]) = NoDate
            /\ NameUnchanged(paths[idx])
            /\ paths[idx] \notin staged
            /\ \A k \in 1..(idx - 1) :
                 (~dry_run /\ (~strict \/ DatesAgree(paths[k])))
                    => RenamedTo(paths[k], TargetOf(paths[k])))
    /\ [][(/\ tool = "rename" /\ pc = "query"
           /\ DateOf(paths[idx]) = NoDate
           /\ pc' \notin {"query", "killed"}) =>
              /\ raised' = "AttributeError" /\ pc' = "raised"
              /\ idx' = idx
              /\ files' = files /\ commits' = commits /\ staged' = staged]_vars

\* C5 witness: the run raised at a file without a commit after it had renamed
\* the file before it.
C5_Witness ==
    /\ tool = "rename" /\ raised = "AttributeError" /\ idx = 2
    /\ RenamedTo(paths[1], TargetOf(paths[1]))

\* The previous run ended by itself and this run has the same arguments.
SameRunAgain ==
    /\ lastRun # <<>>
    /\ lastRun[1].ended \in {"done", "raised"}
    /\ lastRun[1].strict = strict /\ lastRun[1].dry_run = dry_run

\* C6: a file whose name is a time stamp is never renamed, moved or committed
\* again, by this run or by a later one, and a run that follows a run with the
\* same arguments that ended by itself renames nothing and commits nothing.
C6_RenameIsIdempotent ==
    [][tool = "rename" =>
         /\ \A f \in files : IsStampName(f) => f \in files'
         /\ \A f \in files' \ files : IsStampName(f)
         /\ commits' # commits =>
              /\ Len(commits') = Len(commits) + 1
              /\ \E old \in DayNames, new \in StampNames :
                   /\ commits'[Len(commits')].message
                        = old \o <<" ", "-", ">", " ">> \o new
                   /\ old \notin files /\ new \in files
         /\ (SameRunAgain /\ pc # "start") =>
              /\ files' = files /\ commits' = commits /\ staged' = staged]_vars

\* C6 witness: the second of two live runs with the same arguments is over, and
\* the first one had renamed a file.
C6_Witness ==
    /\ tool = "rename" /\ SameRunAgain /\ ~dry_run /\ pc = "done"
    /\ lastRun[1].ended = "done"
    /\ \E k \in DOMAIN commits : commits[k].date = Today
    /\ \E f \in files : f \in DayNames

====
